---------------------------- MODULE Spec2Model ----------------------------
(***************************************************************************)
(* Runex: directory operations (src/src/runex/ops/dirops.py).              *)
(*                                                                         *)
(* Path strings are sequences of one-character strings, so that the        *)
(* string operations the code relies on (endswith, removesuffix, `in`,     *)
(* os.path.split, os.path.join) are computed character by character.       *)
(* The filesystem is a record [dirs, files]: the set of directory paths    *)
(* and a function from file paths to file contents.                        *)
(***************************************************************************)
EXTENDS Integers, Sequences, FiniteSets, TLC

VARIABLES
    fs,             \* the filesystem: [dirs |-> set of paths, files |-> [path -> content]]
    pc,             \* position of the running operation
    overrideArg,    \* argument override: "None", "True" or "False"
    override,       \* the resolved overwrite policy
    walk_stack,     \* os.walk: directories still to visit, a stack of sibling sets
    walk_top,       \* os.walk: the directory yielded last (dirpath / root)
    walk_files,     \* os.walk: filenames of walk_top not yet handled by the loop body
    \* ---- run_unpack_all_in_folder ----
    VAR,            \* the keys of the module-level dictionary utils.VAR
    dir_list,       \* argument: the root sources
    recursive,      \* argument
    i,              \* enumerate index over dir_list (1-based)
    count,          \* running count of archives
    unpacked_dirs,  \* the extraction ledger (a list)
    files_unpacked, \* flag of the recursive while loop
    \* history (observation only)
    calls,          \* every run_unpack call made by run_unpack_all_in_folder
    produced,       \* paths written by extractions during the current walk
    passNo,         \* number of walks started for the current root
    passStartLen,   \* length of the ledger when the current walk started
    \* ---- _run_copy_or_move ----
    option,         \* argument: "cp" or "mv"
    dir_dict,       \* argument: the task rows, in the order of dir_dict.values()
    index,          \* enumerate index over the rows (1-based)
    \* history (observation only)
    fs0,            \* the filesystem when the operation was first called
    acted,          \* the files of a walk handed on past the filters
    filtered,       \* the files of a walk dropped by a filter
    rerun,          \* the caller has called the operation a second time
    snapshot,       \* the filesystem when the first call ended
    \* ---- run_unpack ----
    registry,       \* shutil.get_unpack_formats(): the registered extensions, in order
    \* history (observation only)
    rowlog,         \* for every row run_unpack handled: source, destination, outcome
    \* ---- functions without side effects (fixpath, the header normalisation) ----
    arg,            \* the argument given to the function
    out,            \* the values returned so far, each call taking the last one
    \* ---- run_delete ----
    skip_confimation \* argument

shared == << fs, pc, overrideArg, override, walk_stack, walk_top, walk_files >>
unpackOnly == << VAR, dir_list, recursive, i, count, unpacked_dirs, files_unpacked,
                 calls, produced, passNo, passStartLen >>
syncOnly == << option, dir_dict, index, fs0, acted, filtered, rerun, snapshot >>
unpackRowOnly == << registry, rowlog >>
pureOnly == << arg, out >>
deleteOnly == << skip_confimation >>
vars == << shared, unpackOnly, syncOnly, unpackRowOnly, pureOnly, deleteOnly >>

(***************************************************************************)
(* Bounds of the model.                                                    *)
(***************************************************************************)
MaxRoots == 2       \* longest dir_list given to run_unpack_all_in_folder
MaxNest == 2        \* deepest nesting of archives inside archives
MaxTasks == 2       \* longest batch of rows given to run_copy / run_move / run_unpack
PathMax == 14       \* longest path the platform accepts (PATH_MAX, scaled down)
MaxChars == 4       \* longest string given to fixpath
MaxSeps == 2        \* most separator characters written into a column header

(***************************************************************************)
(* Strings.                                                                *)
(***************************************************************************)
SLASH == <<"/">>

\* str.endswith
EndsWith(s, suf) ==
    /\ Len(suf) <= Len(s)
    /\ SubSeq(s, Len(s) - Len(suf) + 1, Len(s)) = suf

\* str.startswith
StartsWith(s, pre) ==
    /\ Len(pre) <= Len(s)
    /\ SubSeq(s, 1, Len(pre)) = pre

\* str.removesuffix
RemoveSuffix(s, suf) ==
    IF suf # <<>> /\ EndsWith(s, suf) THEN SubSeq(s, 1, Len(s) - Len(suf)) ELSE s

\* Python's  sub in s  on strings
Contains(s, sub) ==
    \E k \in 0..(Len(s) - Len(sub)) : SubSeq(s, k + 1, k + Len(sub)) = sub

\* Python's  x in list
InList(x, list) == \E k \in 1..Len(list) : list[k] = x

\* s.rfind("/"), 1-based, 0 when there is none
LastSlash(s) ==
    LET hits == {k \in 1..Len(s) : s[k] = "/"}
    IN  IF hits = {} THEN 0 ELSE CHOOSE k \in hits : \A j \in hits : j <= k

\* s.rstrip("/")
RECURSIVE RStripSlash(_)
RStripSlash(s) ==
    IF s # <<>> /\ s[Len(s)] = "/" THEN RStripSlash(SubSeq(s, 1, Len(s) - 1)) ELSE s

\* posixpath.split: (head, tail)
Split(p) ==
    LET k == LastSlash(p)
        head == SubSeq(p, 1, k)
        tail == SubSeq(p, k + 1, Len(p))
    IN  [head |-> IF head # <<>> /\ RStripSlash(head) # <<>> THEN RStripSlash(head) ELSE head,
         tail |-> tail]

Dirname(p) == Split(p).head
Basename(p) == Split(p).tail

\* posixpath.join(a, b)
Join(a, b) ==
    IF b # <<>> /\ b[1] = "/" THEN b
    ELSE IF a = <<>> \/ a[Len(a)] = "/" THEN a \o b
    ELSE a \o SLASH \o b

(***************************************************************************)
(* Filesystem.                                                             *)
(***************************************************************************)
IsDir(F, p) == p \in F.dirs
IsFile(F, p) == p \in DOMAIN F.files
Exists(F, p) == IsDir(F, p) \/ IsFile(F, p)

\* A path and the directories above it, the filesystem root excluded.
AncestorsOrSelf(p) ==
    {SubSeq(p, 1, k) : k \in {j \in 2..Len(p) : j = Len(p) \/ p[j + 1] = "/"}}

\* p lies strictly below directory d
IsUnder(d, p) == StartsWith(p, IF d = SLASH THEN d ELSE d \o SLASH) /\ p # d

\* os.scandir(d): the sub-directories and the file names of d
ListDirs(F, d) == {p \in F.dirs : p # d /\ Dirname(p) = d}
ListFiles(F, d) == {Basename(p) : p \in {q \in DOMAIN F.files : Dirname(q) = d}}

\* os.makedirs(p, exist_ok=True): fails when p or a directory above it is a
\* file, and when p is longer than the platform accepts (ENAMETOOLONG)
MakeDirs(F, p) ==
    IF Len(p) > PathMax \/ \E a \in AncestorsOrSelf(p) : IsFile(F, a)
    THEN [ok |-> FALSE, fs |-> F]
    ELSE [ok |-> TRUE, fs |-> [F EXCEPT !.dirs = @ \cup AncestorsOrSelf(p)]]

\* writing a regular file at p (open(p, "wb")): needs the parent directory
\* and fails on a directory and on a path longer than the platform accepts
WriteFile(F, p, c) ==
    IF Len(p) > PathMax \/ ~IsDir(F, Dirname(p)) \/ IsDir(F, p)
    THEN [ok |-> FALSE, fs |-> F]
    ELSE [ok |-> TRUE,
          fs |-> [F EXCEPT !.files = [q \in DOMAIN @ \cup {p} |-> IF q = p THEN c ELSE @[q]]]]

(***************************************************************************)
(* File contents.                                                          *)
(***************************************************************************)
Data(n) == [kind |-> "data", id |-> n, entries |-> <<>>]
Archive(es) == [kind |-> "archive", id |-> 0, entries |-> es]


\* An archive nested k levels deep: level 1 holds a data file f, level k > 1
\* holds b.zip, an archive of level k - 1.
RECURSIVE Nested(_)
Nested(k) ==
    IF k <= 1
    THEN Archive(<< [rel |-> <<"f">>, c |-> Data(1)] >>)
    ELSE Archive(<< [rel |-> <<"b", ".", "z", "i", "p">>, c |-> Nested(k - 1)] >>)

(***************************************************************************)
(* Archive extraction.                                                     *)
(***************************************************************************)
\* shutil.get_unpack_formats() of a process that registered no format of its
\* own, the extensions of its rows in order:
\* .tar.bz2 .tbz2 .tar.gz .tgz .tar .tar.xz .txz .zip
unp_formats ==
    << <<".", "t", "a", "r", ".", "b", "z", "2">>, <<".", "t", "b", "z", "2">>,
       <<".", "t", "a", "r", ".", "g", "z">>, <<".", "t", "g", "z">>,
       <<".", "t", "a", "r">>,
       <<".", "t", "a", "r", ".", "x", "z">>, <<".", "t", "x", "z">>,
       <<".", "z", "i", "p">> >>

\* _check_valid_unpack: (valid_format, packformat). Every registered extension
\* is tried in order and the last one the path ends with is kept.
check_valid_unpack(F, dir_path) ==
    LET hits == IF Exists(F, dir_path)
                THEN {k \in 1..Len(registry) : EndsWith(dir_path, registry[k])}
                ELSE {}
    IN  [valid_format |-> hits # {},
         packformat |-> IF hits = {} THEN <<>>
                        ELSE registry[CHOOSE k \in hits : \A j \in hits : j <= k]]

\* shutil.unpack_archive's loop over the entries of an opened archive: each
\* entry's parent directory is created, then the entry is written; the first
\* failure stops the extraction and leaves what was written before it.
RECURSIVE ExtractEntries(_, _, _, _)
ExtractEntries(F, es, dst, written) ==
    IF es = <<>> THEN [ok |-> TRUE, fs |-> F, written |-> written]
    ELSE LET target == Join(dst, Head(es).rel)
             md == MakeDirs(F, Dirname(target))
             w == WriteFile(md.fs, target, Head(es).c)
         IN  IF ~md.ok THEN [ok |-> FALSE, fs |-> F, written |-> written]
             ELSE IF ~w.ok THEN [ok |-> FALSE, fs |-> md.fs, written |-> written]
             ELSE ExtractEntries(w.fs, Tail(es), dst, written \cup {target})

\* _unpack_func: shutil.unpack_archive(src, dst) inside try/except; a file
\* that is no archive raises ReadError, and every failure is only reported.
unpack_func(F, src, dst) ==
    IF ~IsFile(F, src) \/ F.files[src].kind # "archive"
    THEN [ok |-> FALSE, fs |-> F, written |-> {}]
    ELSE ExtractEntries(F, F.files[src].entries, dst, {})

\* a variant of lines 238-242 without the try/except: a failed extraction
\* leaves _unpack_func as an exception
UnpackRaises_NoExcept(ok) == ~ok

\* _unpack_func, lines 238-242: the bare except takes every exception of
\* shutil.unpack_archive, so none leaves _unpack_func
UnpackRaises(ok) == FALSE

\* a variant of line 90 that extracts whatever stands at the destination
ShouldExtract_Always(ovr, dstIsDir) == TRUE

\* run_unpack, line 90: the test that lets a valid archive be extracted
ShouldExtract(ovr, dstIsDir) == ovr \/ ~dstIsDir

\* run_unpack, the body of its loop for one row (<<src>> or <<src, dst>>)
run_unpack_row(F, row, ovr) ==
    LET src == row[1]
        chk == check_valid_unpack(F, src)
        dst == IF Len(row) = 2 THEN row[2] ELSE RemoveSuffix(src, chk.packformat)
        info == [valid |-> chk.valid_format, dst |-> dst]
    IN  IF chk.valid_format /\ ShouldExtract(ovr, IsDir(F, dst))
        THEN [called |-> TRUE] @@ info @@ unpack_func(F, src, dst)
        ELSE [called |-> FALSE, ok |-> TRUE, fs |-> F, written |-> {}] @@ info

(***************************************************************************)
(* os.walk (top-down).  A directory is listed when the walk reaches it,    *)
(* not before; its sub-directories wait on the stack in the order of the   *)
(* listing, which the platform chooses: a frame of the stack is the set of *)
(* sub-directories of one listing, and any of them may come next.          *)
(***************************************************************************)
WalkStart(top) == << {top} >>

WalkPop(stack, d) ==
    IF Head(stack) = {d} THEN Tail(stack) ELSE << Head(stack) \ {d} >> \o Tail(stack)

\* the stack after directory d was taken from it and listed in filesystem F
WalkVisit(F, stack, d) ==
    LET rest == WalkPop(stack, d)
        subdirs == IF IsDir(F, d) THEN ListDirs(F, d) ELSE {}
    IN  IF subdirs = {} THEN rest ELSE << subdirs >> \o rest

(***************************************************************************)
(* run_unpack_all_in_folder                                                *)
(***************************************************************************)
\* a variant of the test of lines 116 and 134 that takes every file not in the ledger
ShouldUnpack_AnyFile(valid_format, file_path, ledger) == ~InList(file_path, ledger)

\* a variant of the test of lines 116 and 134 that does not consult the ledger
ShouldUnpack_NoLedger(valid_format, file_path, ledger) == valid_format

\* a variant of lines 118 and 136 that leaves the count as it is
CountAfter_Unchanged(n) == n

\* lines 118 and 136: count+=1
CountAfter(n) == n + 1

\* lines 116 and 134: the archive is valid and not in the ledger
ShouldUnpack(valid_format, file_path, ledger) ==
    valid_format /\ ~InList(file_path, ledger)

\* lines 95-96: the overwrite policy; utils has no get_user_confirmation, so
\* asking for it raises AttributeError
UnpackAllStart ==
    /\ UNCHANGED syncOnly
    /\ pc = "ua_start"
    /\ IF overrideArg = "None"
       THEN pc' = "raised" /\ UNCHANGED override
       ELSE pc' = "ua_root" /\ override' = (overrideArg = "True")
    /\ UNCHANGED << fs, VAR, dir_list, recursive, overrideArg, i, count, unpacked_dirs,
                    files_unpacked, walk_stack, walk_top, walk_files,
                    calls, produced, passNo, passStartLen >>
    /\ UNCHANGED unpackRowOnly
    /\ UNCHANGED pureOnly
    /\ UNCHANGED deleteOnly

\* lines 98-106 and 127-128: the next root source, or the return.  The
\* message of line 99 reads utils.VAR['print_tast_div'], a KeyError when the
\* dictionary has no such key.
UnpackAllRoot ==
    /\ UNCHANGED syncOnly
    /\ pc = "ua_root"
    /\ IF i > Len(dir_list)
       THEN /\ pc' = "done"
            /\ UNCHANGED << count, unpacked_dirs, files_unpacked, walk_stack,
                            walk_top, walk_files, produced, passNo, passStartLen >>
       ELSE IF "print_tast_div" \notin VAR
       THEN /\ pc' = "raised"
            /\ UNCHANGED << count, unpacked_dirs, files_unpacked, walk_stack,
                            walk_top, walk_files, produced, passNo, passStartLen >>
       ELSE /\ count' = 0
            /\ unpacked_dirs' = <<>>
            /\ passStartLen' = 0
            /\ produced' = {}
            /\ walk_top' = <<>>
            /\ walk_files' = {}
            /\ IF recursive
               THEN /\ files_unpacked' = TRUE
                    /\ pc' = "ua_while"
                    /\ passNo' = 0
                    /\ walk_stack' = <<>>
               ELSE /\ pc' = "ua_walk"
                    /\ passNo' = 1
                    /\ walk_stack' = WalkStart(dir_list[i])
                    /\ UNCHANGED files_unpacked
    /\ UNCHANGED << fs, VAR, dir_list, recursive, overrideArg, override, i, calls >>
    /\ UNCHANGED unpackRowOnly
    /\ UNCHANGED pureOnly
    /\ UNCHANGED deleteOnly

\* lines 107-110: the test of the while loop and the start of a pass
UnpackAllWhile ==
    /\ UNCHANGED syncOnly
    /\ pc = "ua_while"
    /\ IF files_unpacked
       THEN /\ files_unpacked' = FALSE
            /\ walk_stack' = WalkStart(dir_list[i])
            /\ passNo' = passNo + 1
            /\ passStartLen' = Len(unpacked_dirs)
            /\ produced' = {}
            /\ pc' = "ua_walk"
            /\ UNCHANGED i
       ELSE /\ i' = i + 1
            /\ pc' = "ua_root"
            /\ UNCHANGED << files_unpacked, walk_stack, passNo, passStartLen, produced >>
    /\ UNCHANGED << fs, VAR, dir_list, recursive, overrideArg, override, count,
                    unpacked_dirs, walk_top, walk_files, calls >>
    /\ UNCHANGED unpackRowOnly
    /\ UNCHANGED pureOnly
    /\ UNCHANGED deleteOnly

\* lines 110 and 128: os.walk yields the next directory, or is exhausted
UnpackAllWalk ==
    /\ UNCHANGED syncOnly
    /\ pc = "ua_walk"
    /\ IF walk_stack = <<>>
       THEN /\ IF recursive
               THEN pc' = "ua_while" /\ UNCHANGED i
               ELSE pc' = "ua_root" /\ i' = i + 1
            /\ UNCHANGED << walk_stack, walk_top, walk_files >>
       ELSE \E d \in Head(walk_stack) :
                /\ walk_stack' = WalkVisit(fs, walk_stack, d)
                /\ walk_top' = d
                /\ walk_files' = IF IsDir(fs, d) THEN ListFiles(fs, d) ELSE {}
                /\ pc' = IF IsDir(fs, d) /\ ListFiles(fs, d) # {} THEN "ua_files" ELSE "ua_walk"
                /\ UNCHANGED i
    /\ UNCHANGED << fs, VAR, dir_list, recursive, overrideArg, override, count, unpacked_dirs,
                    files_unpacked, calls, produced, passNo, passStartLen >>
    /\ UNCHANGED unpackRowOnly
    /\ UNCHANGED pureOnly
    /\ UNCHANGED deleteOnly

\* lines 111-125 and 129-141: the loop body for one file name of the listing
UnpackAllFile ==
    /\ UNCHANGED syncOnly
    /\ pc = "ua_files"
    /\ \E filename \in walk_files :
          LET file_path == Join(walk_top, filename)
              chk == check_valid_unpack(fs, file_path)
              res == run_unpack_row(fs, << file_path >>, override)
          IN  /\ IF ShouldUnpack(chk.valid_format, file_path, unpacked_dirs)
                 THEN /\ count' = CountAfter(count)
                      /\ fs' = res.fs
                      /\ unpacked_dirs' = Append(unpacked_dirs, file_path)
                      /\ files_unpacked' = IF recursive THEN TRUE ELSE files_unpacked
                      /\ calls' = Append(calls, [root |-> i, path |-> file_path,
                                                 unpacked |-> res.called,
                                                 fresh |-> file_path \in produced])
                      /\ produced' = produced \cup res.written
                 ELSE UNCHANGED << count, fs, unpacked_dirs, files_unpacked, calls, produced >>
              /\ walk_files' = walk_files \ {filename}
              /\ pc' = IF /\ ShouldUnpack(chk.valid_format, file_path, unpacked_dirs)
                          /\ res.called /\ UnpackRaises(res.ok)
                       THEN "raised"
                       ELSE IF walk_files = {filename} THEN "ua_walk" ELSE "ua_files"
    /\ UNCHANGED << VAR, dir_list, recursive, overrideArg, override, i, walk_stack, walk_top,
                    passNo, passStartLen >>
    /\ UNCHANGED unpackRowOnly
    /\ UNCHANGED pureOnly
    /\ UNCHANGED deleteOnly

UnpackAllNext ==
    \/ UnpackAllStart
    \/ UnpackAllRoot
    \/ UnpackAllWhile
    \/ UnpackAllWalk
    \/ UnpackAllFile

(***************************************************************************)
(* Initial states of run_unpack_all_in_folder: a root /r that may hold     *)
(* a.zip (an archive nested up to MaxNest levels, or a file that is no     *)
(* archive), the path /r/a that a.zip extracts into (absent, a file, an    *)
(* empty directory, or a directory already holding b.zip), and c.tar.      *)
(***************************************************************************)
ZIP == <<".", "z", "i", "p">>
TAR == <<".", "t", "a", "r">>
P_r == <<"/", "r">>
P_ra == <<"/", "r", "/", "a">>
P_m == <<"/", "m">>
P_razip == P_ra \o ZIP
P_rabzip == Join(P_ra, <<"b">> \o ZIP)
P_rctar == Join(P_r, <<"c">> \o TAR)

EmptyFS == [dirs |-> {SLASH}, files |-> << >>]

\* the filesystem with directory p (and the directories above it) added
WithDir(F, p) == [F EXCEPT !.dirs = @ \cup AncestorsOrSelf(p)]

\* the filesystem with file p of content c added, when opt is the one-element
\* sequence << c >>, and unchanged when opt is empty
WithFile(F, p, opt) ==
    IF opt = <<>> THEN F
    ELSE [dirs |-> F.dirs \cup AncestorsOrSelf(Dirname(p)),
          files |-> [q \in DOMAIN F.files \cup {p} |-> IF q = p THEN opt[1] ELSE F.files[q]]]

UnpackSlotA == {<<>>, << Data(2) >>} \cup {<< Nested(k) >> : k \in 1..MaxNest}
UnpackSlotB == {"absent", "file", "dir", "dir_with_b"}
UnpackSlotC == {<<>>, << Nested(1) >>}

UnpackFileSystem(a, b, c) ==
    LET F1 == WithFile(WithDir(EmptyFS, P_r), P_razip, a)
        F2 == CASE b = "absent" -> F1
                [] b = "file" -> WithFile(F1, P_ra, << Data(3) >>)
                [] b = "dir" -> WithDir(F1, P_ra)
                [] OTHER -> WithFile(WithDir(F1, P_ra), P_rabzip, << Nested(1) >>)
    IN  WithFile(F2, P_rctar, c)

UnpackRoots == {P_r, P_ra, P_m}
UnpackDirLists == UNION {[1..n -> UnpackRoots] : n \in 1..MaxRoots}

\* utils.VAR as global_variables() builds it (utils.py lines 62-67)
VAR_built == {"ss_extensions"}

\* utils.VAR is built without the key that line 99 reads; the program that
\* embeds the module may have added it before the call
UnpackVARs == {VAR_built, VAR_built \cup {"print_tast_div"}}

UnpackAllInit ==
    /\ VAR \in UnpackVARs
    /\ fs \in {UnpackFileSystem(a, b, c) : a \in UnpackSlotA, b \in UnpackSlotB, c \in UnpackSlotC}
    /\ dir_list \in UnpackDirLists
    /\ recursive \in BOOLEAN
    /\ overrideArg \in {"None", "True", "False"}
    /\ pc = "ua_start"
    /\ override = FALSE
    /\ i = 1
    /\ count = 0
    /\ unpacked_dirs = <<>>
    /\ files_unpacked = FALSE
    /\ walk_stack = <<>>
    /\ walk_top = <<>>
    /\ walk_files = {}
    /\ calls = <<>>
    /\ produced = {}
    /\ passNo = 0
    /\ passStartLen = 0
    /\ option = "cp"
    /\ dir_dict = <<>>
    /\ index = 1
    /\ fs0 = EmptyFS
    /\ acted = {}
    /\ filtered = {}
    /\ rerun = FALSE
    /\ snapshot = EmptyFS
    /\ registry = unp_formats
    /\ rowlog = <<>>
    /\ arg = <<>>
    /\ out = <<>>
    /\ skip_confimation = FALSE

UnpackAllSpec == UnpackAllInit /\ [][UnpackAllNext]_vars

(***************************************************************************)
(* Properties of run_unpack_all_in_folder.                                 *)
(***************************************************************************)
\* the path ends with one of the registered archive extensions
HasArchiveExtension(p) == \E k \in 1..Len(unp_formats) : EndsWith(p, unp_formats[k])

\* the archive files below directory d
ArchivesUnder(F, d) == {p \in DOMAIN F.files : IsUnder(d, p) /\ HasArchiveExtension(p)}

\* the directory an archive path is extracted into: the path without its extension
ExtractionDir(p) ==
    RemoveSuffix(p, unp_formats[CHOOSE k \in 1..Len(unp_formats) :
                                    /\ EndsWith(p, unp_formats[k])
                                    /\ \A j \in 1..Len(unp_formats) :
                                          EndsWith(p, unp_formats[j]) => j <= k])

\* C1 (as claimed): when run_unpack_all_in_folder(roots, recursive=True,
\* overwrite=True) has ended, every file below a root whose name ends with a
\* supported archive extension was handed to the extraction, at any nesting
\* depth, and the entries of every well-formed archive are present in its
\* extraction directory (unless a regular file occupies that directory's
\* path).
C1_AllArchivesExtracted ==
    (pc \in {"done", "raised"} /\ recursive /\ override) =>
        \A k \in 1..Len(dir_list) : \A p \in ArchivesUnder(fs, dir_list[k]) :
            /\ \E c \in 1..Len(calls) : calls[c].path = p /\ calls[c].unpacked
            /\ (fs.files[p].kind = "archive" /\ ~IsFile(fs, ExtractionDir(p))) =>
                  \A e \in 1..Len(fs.files[p].entries) :
                      IsFile(fs, Join(ExtractionDir(p), fs.files[p].entries[e].rel))

\* C2: in recursive mode the pass loop stops: at the test of the while loop
\* the flag says exactly whether the pass just finished put a new path in the
\* ledger, so another pass starts only after a pass that extracted something
\* new, and the number of passes never exceeds the number of archive files
\* below the root plus one; the loop over the file names is never stuck; and
\* no run of the function takes steps for ever.
C2_PassLoopTerminates ==
    /\ []((recursive /\ pc \in {"ua_while", "ua_walk", "ua_files"}) =>
             /\ passNo <= Cardinality(ArchivesUnder(fs, dir_list[i])) + 1
             /\ passNo >= 2 => passStartLen >= passNo - 1
             /\ (pc = "ua_while" /\ passNo >= 1) =>
                   (files_unpacked <=> Len(unpacked_dirs) > passStartLen))
    /\ [](pc = "ua_files" => walk_files # {})
    /\ <>[][FALSE]_vars

\* C2 witness: a.zip holding b.zip: the third pass found nothing and the loop halts.
C2_Witness ==
    /\ recursive /\ pc = "ua_while" /\ ~files_unpacked
    /\ passNo = 3 /\ Len(unpacked_dirs) = 2
    /\ InList(P_razip, unpacked_dirs) /\ InList(P_rabzip, unpacked_dirs)

C27_CountIsLedgerSize ==
    /\ count = Len(unpacked_dirs)
    /\ \A k \in 1..Len(calls) : calls[k].root = i => InList(calls[k].path, unpacked_dirs)
    /\ \A j, k \in 1..Len(unpacked_dirs) : unpacked_dirs[j] = unpacked_dirs[k] => j = k

\* C27 witness: in recursive mode an archive whose extraction was skipped
\* or failed is counted and in the ledger, and a later pass over the root
\* has gone by without a second attempt.
C27_Witness ==
    /\ recursive /\ pc = "ua_while" /\ passNo >= 2 /\ ~files_unpacked
    /\ count >= 1
    /\ \E k \in 1..Len(calls) :
          /\ calls[k].root = i
          /\ ~calls[k].unpacked \/ fs.files[calls[k].path].kind # "archive"
          /\ InList(calls[k].path, unpacked_dirs)

(***************************************************************************)
(* Regular expressions, as far as the filters of the model use them:       *)
(* literal characters, \c for a literal c, . for any character, ^ in front *)
(* and $ at the end.  A pattern with an unescaped ( or [ is not closed and *)
(* does not compile.  re.search looks for a match at any position.         *)
(***************************************************************************)
\* Python's None, which no path or pattern equals
NONE == << "None" >>

\* truth value of a string-or-None: None and the empty string are false
Truthy(x) == x # NONE /\ x # <<>>

RegexAnchoredStart(pat) == pat # <<>> /\ pat[1] = "^"
RegexAnchoredEnd(pat) ==
    /\ pat # <<>> /\ pat[Len(pat)] = "$"
    /\ (Len(pat) = 1 \/ pat[Len(pat) - 1] # "\\")

\* the atoms of a pattern without its anchors
RECURSIVE RegexAtoms(_)
RegexAtoms(body) ==
    IF body = <<>> THEN <<>>
    ELSE IF body[1] = "\\" /\ Len(body) >= 2
         THEN << [any |-> FALSE, ch |-> body[2]] >> \o RegexAtoms(SubSeq(body, 3, Len(body)))
    ELSE IF body[1] = "."
         THEN << [any |-> TRUE, ch |-> "."] >> \o RegexAtoms(Tail(body))
    ELSE << [any |-> FALSE, ch |-> body[1]] >> \o RegexAtoms(Tail(body))

RegexBody(pat) ==
    SubSeq(pat, IF RegexAnchoredStart(pat) THEN 2 ELSE 1,
                IF RegexAnchoredEnd(pat) THEN Len(pat) - 1 ELSE Len(pat))

\* re.compile succeeds
RegexValid(pat) ==
    \A k \in 1..Len(pat) : pat[k] \in {"(", "["} => (k > 1 /\ pat[k - 1] = "\\")

\* re.search(pat, s) finds a match
ReSearch(pat, s) ==
    LET atoms == RegexAtoms(RegexBody(pat))
        n == Len(atoms)
    IN  \E k \in 0..(Len(s) - n) :
            /\ RegexAnchoredStart(pat) => k = 0
            /\ RegexAnchoredEnd(pat) => k + n = Len(s)
            /\ \A j \in 1..n : atoms[j].any \/ atoms[j].ch = s[k + j]

(***************************************************************************)
(* Copying and moving one file.                                            *)
(***************************************************************************)
RemoveFile(F, p) == [F EXCEPT !.files = [q \in DOMAIN @ \ {p} |-> @[q]]]

\* shutil.copy2(src, dst) of a regular file: into dst when dst is a directory;
\* SameFileError when source and target are one file
Copy2(F, src, dst) ==
    LET real == IF IsDir(F, dst) THEN Join(dst, Basename(src)) ELSE dst
    IN  IF ~IsFile(F, src) \/ real = src THEN [ok |-> FALSE, fs |-> F]
        ELSE WriteFile(F, real, F.files[src])

\* shutil.move(src, dst) of a regular file: into dst when dst is a directory
\* (an error when the name is taken there); os.rename replaces a file at the
\* target and fails, like the copy2 that is tried after it, when the target's
\* parent directory is missing.  Nothing creates that directory.
Move(F, src, dst) ==
    LET real == IF IsDir(F, dst) THEN Join(dst, Basename(src)) ELSE dst
        w == WriteFile(F, real, F.files[src])
    IN  IF ~IsFile(F, src) \/ (IsDir(F, dst) /\ Exists(F, real)) THEN [ok |-> FALSE, fs |-> F]
        ELSE IF real = src THEN [ok |-> TRUE, fs |-> F]
        ELSE IF ~w.ok THEN [ok |-> FALSE, fs |-> F]
        ELSE [ok |-> TRUE, fs |-> RemoveFile(w.fs, src)]

\* shutil.copytree(src, dst, dirs_exist_ok=True): the mirror of every
\* directory and file below src.  (Both callers pass a regular file, so this
\* branch of _copy_or_move is not reached from _run_copy_or_move.)
CopyTree(F, src, dst) ==
    LET mirror(q) == IF q = src THEN dst ELSE Join(dst, SubSeq(q, Len(src) + 2, Len(q)))
        ds == {mirror(q) : q \in {x \in F.dirs : x = src \/ IsUnder(src, x)}}
        fl == {q \in DOMAIN F.files : IsUnder(src, q)}
    IN  IF \/ \E t \in ds : \E a \in AncestorsOrSelf(t) : IsFile(F, a)
           \/ \E q \in fl : IsDir(F, mirror(q))
        THEN [ok |-> FALSE, fs |-> F]
        ELSE [ok |-> TRUE,
              fs |-> [dirs |-> F.dirs \cup UNION {AncestorsOrSelf(t) : t \in ds},
                      files |-> [t \in DOMAIN F.files \cup {mirror(q) : q \in fl} |->
                                    IF \E q \in fl : mirror(q) = t
                                    THEN F.files[CHOOSE q \in fl : mirror(q) = t]
                                    ELSE F.files[t]]]]

\* _copy_or_move: [ok, fs]; ok is FALSE when the library call raises
copy_or_move(opt, F, src, dst) ==
    IF opt = "cp"
    THEN IF IsDir(F, src) THEN CopyTree(F, src, dst)
         ELSE LET md == MakeDirs(F, Dirname(dst))
              IN  IF ~md.ok THEN [ok |-> FALSE, fs |-> F] ELSE Copy2(md.fs, src, dst)
    ELSE Move(F, src, dst)

(***************************************************************************)
(* The inputs of run_copy / run_move.  The source tree is                  *)
(*     /s/{a.txt, d.txt, d/{b.csv, e/}}                                    *)
(* (e is an empty directory).  The destination /d is absent, an empty      *)
(* directory, a directory holding another a.txt, or a regular file.  The   *)
(* rows are directory syncs of /s into /d under every combination of the   *)
(* filters and under a filter that does not compile, syncs of /s into its  *)
(* own sub-directories /s/d and /s/d/e, a missing source, a pair the cycle *)
(* guard rejects (/s/d into /d), and the single file /s/a.txt sent to      *)
(* /d/a.txt and to /d, the single file and the empty directory /s/d/e     *)
(* under a filter that does not compile, and a row of /s without a         *)
(* destination value.                                                      *)
(* The first row of a batch is any of them; the rows after it are the plain *)
(* sync of /s into /d, the missing source, the single file sent to         *)
(* /d/a.txt or the row without a destination.                              *)
(***************************************************************************)
TXT == <<".", "t", "x", "t">>
CSV == <<".", "c", "s", "v">>
P_s == <<"/", "s">>
P_d == <<"/", "d">>
P_sd == <<"/", "s", "/", "d">>
P_sde == <<"/", "s", "/", "d", "/", "e">>
N_atxt == <<"a">> \o TXT
N_dtxt == <<"d">> \o TXT
N_bcsv == <<"b">> \o CSV
RE_txt == <<"\\", ".", "t", "x", "t", "$">>
RE_d == <<"d">>
RE_bad == <<"(">>

SyncSourceTree ==
    LET F1 == WithFile(WithDir(EmptyFS, P_sde), Join(P_s, N_atxt), << Data(1) >>)
        F2 == WithFile(F1, Join(P_s, N_dtxt), << Data(2) >>)
    IN  WithFile(F2, Join(P_sd, N_bcsv), << Data(3) >>)

SyncFileSystem(d) ==
    CASE d = "absent" -> SyncSourceTree
      [] d = "empty" -> WithDir(SyncSourceTree, P_d)
      [] d = "holds_a" -> WithFile(SyncSourceTree, Join(P_d, N_atxt), << Data(9) >>)
      [] OTHER -> WithFile(SyncSourceTree, P_d, << Data(8) >>)

SyncFileSystems == {SyncFileSystem(d) : d \in {"absent", "empty", "holds_a", "file"}}

Row(src, dst, onlf, ignf) ==
    [source |-> src, destination |-> dst, onlyfiles |-> onlf, ignorefiles |-> ignf]

SyncRows ==
    {Row(P_s, P_d, o, g) : o \in {NONE, RE_txt}, g \in {NONE, RE_d}}
    \cup {Row(P_s, P_d, RE_bad, NONE),
          Row(P_s, P_sd, NONE, NONE),
          Row(P_s, P_sde, NONE, NONE),
          Row(P_m, P_d, NONE, NONE),
          Row(P_sd, P_d, NONE, NONE),
          Row(Join(P_s, N_atxt), Join(P_d, N_atxt), NONE, NONE),
          Row(Join(P_s, N_atxt), P_d, NONE, NONE),
          Row(Join(P_s, N_atxt), Join(P_d, N_atxt), RE_bad, NONE),
          Row(P_sde, P_m, RE_bad, NONE),
          Row(P_s, NONE, NONE, NONE)}

SyncLaterRows ==
    {Row(P_s, P_d, NONE, NONE),
     Row(P_m, P_d, NONE, NONE),
     Row(Join(P_s, N_atxt), Join(P_d, N_atxt), NONE, NONE),
     Row(P_s, NONE, NONE, NONE)}

(***************************************************************************)
(* _run_copy_or_move                                                       *)
(***************************************************************************)
\* _check_valid_dir: the path exists
check_valid_dir(F, dir_path) == Exists(F, dir_path)

\* _check_not_infloop: False when src is a directory, the string dst occurs
\* in the string src (Python:  dst in src) and the parents differ
check_not_infloop(F, src, dst) ==
    ~(IsDir(F, src) /\ Contains(src, dst) /\ Split(src).head # Split(dst).head)

\* a variant of line 184 without the cycle guard
TaskAccepted_NoGuard(F, src, dst) == check_valid_dir(F, src)

\* line 184: the task is carried out
TaskAccepted(F, src, dst) == check_valid_dir(F, src) /\ check_not_infloop(F, src, dst)

\* os.path.relpath(path, start) for start itself and for paths below start
RelPath(path, start) ==
    IF path = start THEN << "." >> ELSE SubSeq(path, Len(start) + 2, Len(path))

\* a variant of line 189 that mirrors the directories under a filter too
MirrorsDirectory_Always(onlf, ignf) == TRUE

\* line 189: if (not onlf) and (not ignf)
MirrorsDirectory(onlf, ignf) == ~Truthy(onlf) /\ ~Truthy(ignf)

\* a variant of lines 190-191 that mirrors every directory onto dst itself
MirrorRoot_Flat(dst, rel_root) == dst

\* lines 190-191: os.path.join(dst, rel_root); os.makedirs takes "dst/." as dst
MirrorRoot(dst, rel_root) == IF rel_root = << "." >> THEN dst ELSE Join(dst, rel_root)

\* a variant of lines 199-202 that applies the only-filter alone
filter_outcome_OnlyFilter(onlf, ignf, file) ==
    IF Truthy(onlf) /\ ~RegexValid(onlf) THEN "error"
    ELSE IF Truthy(onlf) /\ ~ReSearch(onlf, file) THEN "skip"
    ELSE "pass"

\* lines 199-202: "skip" when a filter drops the file, "error" when a filter
\* that is evaluated does not compile, else "pass"
filter_outcome(onlf, ignf, file) ==
    IF Truthy(onlf) /\ ~RegexValid(onlf) THEN "error"
    ELSE IF Truthy(onlf) /\ ~ReSearch(onlf, file) THEN "skip"
    ELSE IF Truthy(ignf) /\ ~RegexValid(ignf) THEN "error"
    ELSE IF Truthy(ignf) /\ ReSearch(ignf, file) THEN "skip"
    ELSE "pass"

\* lines 207-210: the file is handed to _copy_or_move
ShouldTransfer(ovr, dstExists) == ovr \/ ~dstExists

\* lines 160-164: the overwrite policy; utils has no get_user_confirmation, so
\* asking for it raises AttributeError
SyncStart ==
    /\ pc = "cm_start"
    /\ IF overrideArg = "None"
       THEN pc' = "raised" /\ UNCHANGED override
       ELSE pc' = "cm_task" /\ override' = (overrideArg = "True")
    /\ UNCHANGED << fs, overrideArg, walk_stack, walk_top, walk_files >>
    /\ UNCHANGED << unpackOnly, syncOnly >>
    /\ UNCHANGED unpackRowOnly
    /\ UNCHANGED pureOnly
    /\ UNCHANGED deleteOnly

\* The rows of dir_dict are fixed by the caller, and the loop reads row k
\* only in its iteration k (len(dir_dict) is used in a printed message only).
\* The model therefore draws a row when the loop reaches it: dir_dict holds
\* the rows read so far, and the batch ends after any row, at MaxTasks rows
\* at the latest.  A repeated call reads the same rows again.
RowsToRead ==
    IF index <= Len(dir_dict) THEN {dir_dict[index]}
    ELSE IF ~rerun /\ Len(dir_dict) < MaxTasks
         THEN IF dir_dict = <<>> THEN SyncRows ELSE SyncLaterRows
    ELSE {}

\* lines 167-186 and 212-215: the next row
SyncTask ==
    /\ pc = "cm_task"
    /\ \E item \in RowsToRead :
          LET src == item.source
              dst == item.destination
              r == copy_or_move(option, fs, src, dst)
          IN  /\ dir_dict' = IF index <= Len(dir_dict) THEN dir_dict ELSE Append(dir_dict, item)
              /\ IF src = NONE \/ dst = NONE
                 THEN pc' = "exited" /\ UNCHANGED << fs, index, walk_stack >>
                 ELSE IF ~TaskAccepted(fs, src, dst)
                 THEN pc' = "cm_task" /\ index' = index + 1 /\ UNCHANGED << fs, walk_stack >>
                 ELSE IF IsDir(fs, src)
                 THEN pc' = "cm_walk" /\ walk_stack' = WalkStart(src) /\ UNCHANGED << fs, index >>
                 ELSE IF IsFile(fs, src) /\ (~IsFile(fs, dst) \/ override)
                 THEN /\ fs' = r.fs
                      /\ IF r.ok THEN pc' = "cm_task" /\ index' = index + 1
                         ELSE pc' = "raised" /\ UNCHANGED index
                      /\ UNCHANGED walk_stack
                 ELSE pc' = "cm_task" /\ index' = index + 1 /\ UNCHANGED << fs, walk_stack >>
    /\ UNCHANGED << overrideArg, override, walk_top, walk_files >>
    /\ UNCHANGED << unpackOnly, option, fs0, acted, filtered, rerun, snapshot >>
    /\ UNCHANGED unpackRowOnly
    /\ UNCHANGED pureOnly
    /\ UNCHANGED deleteOnly

\* line 167: the rows are exhausted and the operation returns
SyncReturn ==
    /\ pc = "cm_task"
    /\ index > Len(dir_dict)
    /\ pc' = "done"
    /\ UNCHANGED << fs, overrideArg, override, walk_stack, walk_top, walk_files >>
    /\ UNCHANGED << unpackOnly, syncOnly >>
    /\ UNCHANGED unpackRowOnly
    /\ UNCHANGED pureOnly
    /\ UNCHANGED deleteOnly

\* lines 187-192: os.walk yields the next directory, whose mirror is created
\* when no filter is set, or is exhausted
SyncWalk ==
    /\ pc = "cm_walk"
    /\ IF walk_stack = <<>>
       THEN /\ pc' = "cm_task" /\ index' = index + 1
            /\ UNCHANGED << fs, walk_stack, walk_top, walk_files >>
       ELSE \E d \in Head(walk_stack) :
              LET item == dir_dict[index]
                  md == MakeDirs(fs, MirrorRoot(item.destination, RelPath(d, item.source)))
                  unfiltered == MirrorsDirectory(item.onlyfiles, item.ignorefiles)
              IN  /\ walk_stack' = WalkVisit(fs, walk_stack, d)
                  /\ walk_top' = d
                  /\ UNCHANGED index
                  /\ IF ~IsDir(fs, d)
                     THEN pc' = "cm_walk" /\ walk_files' = {} /\ UNCHANGED fs
                     ELSE /\ walk_files' = ListFiles(fs, d)
                          /\ IF unfiltered THEN fs' = md.fs ELSE UNCHANGED fs
                          /\ pc' = IF unfiltered /\ ~md.ok THEN "raised"
                                   ELSE IF ListFiles(fs, d) = {} THEN "cm_walk"
                                   ELSE "cm_files"
    /\ UNCHANGED << overrideArg, override >>
    /\ UNCHANGED << unpackOnly, option, dir_dict, fs0, acted, filtered, rerun, snapshot >>
    /\ UNCHANGED unpackRowOnly
    /\ UNCHANGED pureOnly
    /\ UNCHANGED deleteOnly

\* lines 195-210: the loop body for one file name of the listing
SyncFile ==
    /\ pc = "cm_files"
    /\ \E file \in walk_files :
          LET item == dir_dict[index]
              src_path == Join(walk_top, file)
              rel_path == RelPath(src_path, item.source)
              dst_path == Join(item.destination, rel_path)
              outcome == filter_outcome(item.onlyfiles, item.ignorefiles, file)
              transfer == ShouldTransfer(override, Exists(fs, dst_path))
              r == copy_or_move(option, fs, src_path, dst_path)
              entry == [idx |-> index, root |-> walk_top, file |-> file]
              next == IF walk_files = {file} THEN "cm_walk" ELSE "cm_files"
          IN  /\ walk_files' = walk_files \ {file}
              /\ CASE outcome = "error" ->
                        pc' = "raised" /\ UNCHANGED << fs, acted, filtered >>
                   [] outcome = "skip" ->
                        pc' = next /\ filtered' = filtered \cup {entry} /\ UNCHANGED << fs, acted >>
                   [] OTHER ->
                        /\ acted' = acted \cup {entry}
                        /\ UNCHANGED filtered
                        /\ IF transfer
                           THEN fs' = r.fs /\ pc' = IF r.ok THEN next ELSE "raised"
                           ELSE pc' = next /\ UNCHANGED fs
    /\ UNCHANGED << overrideArg, override, walk_stack, walk_top >>
    /\ UNCHANGED << unpackOnly, option, dir_dict, index, fs0, rerun, snapshot >>
    /\ UNCHANGED unpackRowOnly
    /\ UNCHANGED pureOnly
    /\ UNCHANGED deleteOnly

\* the caller repeats a never-overwrite copy with the same arguments
SyncCallAgain ==
    /\ pc \in {"done", "raised"}
    /\ ~rerun
    /\ option = "cp"
    /\ overrideArg = "False"
    /\ rerun' = TRUE
    /\ snapshot' = fs
    /\ index' = 1
    /\ pc' = "cm_task"
    /\ walk_stack' = <<>>
    /\ walk_top' = <<>>
    /\ walk_files' = {}
    /\ UNCHANGED << fs, overrideArg, override >>
    /\ UNCHANGED << unpackOnly, option, dir_dict, fs0, acted, filtered >>
    /\ UNCHANGED unpackRowOnly
    /\ UNCHANGED pureOnly
    /\ UNCHANGED deleteOnly

SyncNext ==
    \/ SyncStart
    \/ SyncTask
    \/ SyncReturn
    \/ SyncWalk
    \/ SyncFile
    \/ SyncCallAgain

(***************************************************************************)
(* Initial states of run_copy / run_move.                                  *)
(***************************************************************************)
SyncInit ==
    /\ fs \in SyncFileSystems
    /\ fs0 = fs
    /\ option \in {"cp", "mv"}
    /\ dir_dict = <<>>
    /\ overrideArg \in {"None", "True", "False"}
    /\ pc = "cm_start"
    /\ override = FALSE
    /\ index = 1
    /\ walk_stack = <<>>
    /\ walk_top = <<>>
    /\ walk_files = {}
    /\ acted = {}
    /\ filtered = {}
    /\ rerun = FALSE
    /\ snapshot = EmptyFS
    /\ VAR = VAR_built
    /\ dir_list = <<>>
    /\ recursive = FALSE
    /\ i = 1
    /\ count = 0
    /\ unpacked_dirs = <<>>
    /\ files_unpacked = FALSE
    /\ calls = <<>>
    /\ produced = {}
    /\ passNo = 0
    /\ passStartLen = 0
    /\ registry = unp_formats
    /\ rowlog = <<>>
    /\ arg = <<>>
    /\ out = <<>>
    /\ skip_confimation = FALSE

SyncSpec == SyncInit /\ [][SyncNext]_vars

(***************************************************************************)
(* Properties of run_copy / run_move.                                      *)
(***************************************************************************)
\* C5 (as claimed): _check_not_infloop(source, destination) is false exactly
\* when source is an existing directory, the destination path string
\* contains the source path string, and the parent directories differ;
\* evaluated on every pair of paths of the rows that reach the guard (the
\* rows with a destination value), in every filesystem reached.
C5_GuardFalseIffDestinationContainsSource ==
    \A r \in {x \in SyncRows : x.destination # NONE} :
        check_not_infloop(fs, r.source, r.destination)
            = ~(/\ IsDir(fs, r.source)
                /\ Contains(r.destination, r.source)
                /\ Dirname(r.source) # Dirname(r.destination))

\* C6: a task whose source does not exist, or whose pair the cycle guard
\* rejects, changes nothing in the filesystem, and the loop goes on to the
\* next row of the batch.
C6_SkippedTaskChangesNothing ==
    [][(pc = "cm_task" /\ index <= Len(dir_dict'))
          => LET item == dir_dict'[index]
             IN  (\/ ~Exists(fs, item.source)
                  \/ ~check_not_infloop(fs, item.source, item.destination))
                     => (fs' = fs /\ pc' = "cm_task" /\ index' = index + 1)]_vars

\* C6 witness: the first row was rejected by the cycle guard although its
\* source exists, and the second row of the batch was carried out.
C6_Witness ==
    /\ ~rerun /\ pc = "done" /\ Len(dir_dict) = 2
    /\ Exists(fs0, dir_dict[1].source)
    /\ ~check_not_infloop(fs0, dir_dict[1].source, dir_dict[1].destination)
    /\ fs # fs0
    /\ \E e \in acted : e.idx = 2

\* C7: during a directory sync a file is handed on exactly when its bare
\* name passes the filters: the only-filter is unset or found in the name,
\* and the ignore-filter is unset or not found in the name.  The directory
\* the file lies in plays no part.
C7_FilterDecidesOnBareName ==
    LET include(e) ==
            LET only == dir_dict[e.idx].onlyfiles
                ignore == dir_dict[e.idx].ignorefiles
            IN  /\ (~Truthy(only) \/ ReSearch(only, e.file))
                /\ (~Truthy(ignore) \/ ~ReSearch(ignore, e.file))
    IN  /\ \A e \in acted : include(e)
        /\ \A e \in filtered : ~include(e)

\* C7 witness: under the ignore-filter d, b.csv of directory /s/d was handed
\* on (its directory holds a d, its name does not) and d.txt was dropped.
C7_Witness ==
    /\ Len(dir_dict) >= 1 /\ dir_dict[1].ignorefiles = RE_d
    /\ [idx |-> 1, root |-> P_sd, file |-> N_bcsv] \in acted
    /\ [idx |-> 1, root |-> P_s, file |-> N_dtxt] \in filtered

\* C8 (as claimed): a second run_copy with override=False and the same rows
\* leaves every destination tree as the first run left it (same paths, same
\* contents).
C8_SecondCopyChangesNothing ==
    rerun =>
        \A k \in 1..Len(dir_dict) :
            LET d == dir_dict[k].destination
                under(F) == {p \in F.dirs \cup DOMAIN F.files : p = d \/ IsUnder(d, p)}
            IN  /\ under(fs) = under(snapshot)
                /\ {p \in under(fs) : IsDir(fs, p)} = {p \in under(snapshot) : IsDir(snapshot, p)}
                /\ \A p \in under(fs) \cap DOMAIN fs.files :
                       p \in DOMAIN snapshot.files /\ fs.files[p] = snapshot.files[p]

\* C9 (as claimed, for the always-overwrite policy and a destination that is
\* no regular file and lies outside the source): when run_move on one directory task has ended, every file
\* that lay under the source before the call and passes the filters is gone
\* from its source path and lies at the mirrored path under the destination.
C9_MovedFilesLeaveSource ==
    (/\ option = "mv" /\ override /\ pc \in {"done", "raised"}
     /\ Len(dir_dict) = 1
     /\ IsDir(fs0, dir_dict[1].source)
     /\ ~IsFile(fs0, dir_dict[1].destination)
     /\ ~IsUnder(dir_dict[1].source, dir_dict[1].destination)
     /\ check_not_infloop(fs0, dir_dict[1].source, dir_dict[1].destination))
        => LET item == dir_dict[1]
               qualifies(f) ==
                   /\ (~Truthy(item.onlyfiles) \/ ReSearch(item.onlyfiles, Basename(f)))
                   /\ (~Truthy(item.ignorefiles) \/ ~ReSearch(item.ignorefiles, Basename(f)))
           IN  \A f \in DOMAIN fs0.files :
                   (IsUnder(item.source, f) /\ qualifies(f))
                       => /\ ~IsFile(fs, f)
                          /\ IsFile(fs, Join(item.destination, RelPath(f, item.source)))

\* C10 (as claimed, for a destination outside the source): when an
\* unfiltered copy with override=True of a source directory into an empty or
\* absent destination has been processed, every file of the source lies at
\* the same relative path under the destination with the same content, and
\* nothing under the source was added, removed or modified.
C10_CopyMirrorsSource ==
    (/\ option = "cp" /\ override /\ pc = "cm_task" /\ index = 2
     /\ IsDir(fs0, dir_dict[1].source)
     /\ ~Truthy(dir_dict[1].onlyfiles) /\ ~Truthy(dir_dict[1].ignorefiles)
     /\ ~IsFile(fs0, dir_dict[1].destination)
     /\ \A p \in fs0.dirs \cup DOMAIN fs0.files : ~IsUnder(dir_dict[1].destination, p)
     /\ ~IsUnder(dir_dict[1].source, dir_dict[1].destination))
        => LET src == dir_dict[1].source
               dst == dir_dict[1].destination
               below(F) == {p \in F.dirs \cup DOMAIN F.files : IsUnder(src, p)}
           IN  /\ \A f \in DOMAIN fs0.files :
                      IsUnder(src, f) =>
                          /\ IsFile(fs, Join(dst, RelPath(f, src)))
                          /\ fs.files[Join(dst, RelPath(f, src))] = fs0.files[f]
               /\ below(fs) = below(fs0)
               /\ \A p \in below(fs0) :
                      /\ IsDir(fs, p) = IsDir(fs0, p)
                      /\ IsFile(fs0, p) => fs.files[p] = fs0.files[p]

\* C11 (as claimed, for destinations outside the source): under
\* override=False every file that lay at or under the destination of a row
\* before the call is still there with the same content, whatever the rows,
\* for copy and for move, for directory sources and single-file sources.
C11_NeverOverwriteKeepsDestination ==
    (/\ overrideArg = "False" /\ ~rerun
     /\ \A k \in 1..Len(dir_dict) :
            ~IsUnder(dir_dict[k].source, dir_dict[k].destination))
        => \A k \in 1..Len(dir_dict) :
               \A f \in DOMAIN fs0.files :
                   (f = dir_dict[k].destination \/ IsUnder(dir_dict[k].destination, f))
                       => IsFile(fs, f) /\ fs.files[f] = fs0.files[f]

EmptySourceMirrors(k) ==
    LET item == dir_dict[k]
    IN  { IF p = item.source THEN item.destination
          ELSE item.destination \o SLASH \o SubSeq(p, Len(item.source) + 2, Len(p)) :
          p \in { q \in fs0.dirs : /\ (q = item.source \/ IsUnder(item.source, q))
                                   /\ ListFiles(fs0, q) = {} } }

C14_TransferCreatesParents ==
    [][pc = "cm_files"
          => \A file \in walk_files \ walk_files' :
                LET item == dir_dict[index]
                    src_path == Join(walk_top, file)
                    dst_path == Join(item.destination, RelPath(src_path, item.source))
                IN  (/\ Truthy(item.onlyfiles) \/ Truthy(item.ignorefiles)
                     /\ filter_outcome(item.onlyfiles, item.ignorefiles, file) = "pass"
                     /\ IsFile(fs, src_path)
                     /\ ~IsDir(fs, Dirname(dst_path))
                     /\ \A a \in AncestorsOrSelf(dst_path) : ~IsFile(fs, a)
                     /\ Len(dst_path) <= PathMax)
                        => /\ pc' # "raised"
                           /\ IsDir(fs', Dirname(dst_path))
                           /\ IsFile(fs', dst_path)
                           /\ fs'.files[dst_path] = fs.files[src_path]]_vars

\* C15 (as claimed): a step of the tree walk that hands a qualifying file to
\* the copy or move never ends the call: whether the transfer succeeds or
\* fails, the walk goes on with the remaining files of the directory or with
\* the next directory, and so reaches the remaining tasks.
C15_FailedTransferDoesNotStopWalk ==
    [][pc = "cm_files"
          => \A file \in walk_files \ walk_files' :
                LET item == dir_dict[index]
                IN  filter_outcome(item.onlyfiles, item.ignorefiles, file) = "pass"
                        => pc' = IF walk_files' = {} THEN "cm_walk" ELSE "cm_files"]_vars

\* C16 (as claimed): run_copy and run_move never reach the process-exit path
\* (message_exit, sys.exit), whatever the rows, a row without a destination
\* value included.
C16_NeverExitsProcess == pc # "exited"

\* C17 (as claimed): the first step of run_copy / run_move resolves the
\* overwrite policy, by the one prompt of the call when override is unset and
\* without a prompt otherwise, changes nothing on the filesystem and hands
\* over to the loop over the rows, which never resolves the policy again.
C17_PolicyResolvedOnceAtStart ==
    [][/\ pc = "cm_start" => (pc' = "cm_task" /\ fs' = fs)
       /\ pc # "cm_start" => override' = override]_vars

\* C23 (as claimed): the step that handles a row whose source is a single
\* file looks at no filter; when no file exists at the destination path or
\* override is true, the file is at the destination path afterwards with the
\* content of the source (and gone from the source in a move); otherwise the
\* filesystem is unchanged.
C23_SingleFileTransferredIffAbsentOrOverride ==
    [][(pc = "cm_task" /\ index <= Len(dir_dict'))
          => LET item == dir_dict'[index]
                 src == item.source
                 dst == item.destination
             IN  (dst # NONE /\ IsFile(fs, src) /\ Len(dst) <= PathMax)
                    => IF ~IsFile(fs, dst) \/ override
                       THEN /\ IsFile(fs', dst)
                            /\ fs'.files[dst] = fs.files[src]
                            /\ option = "mv" => ~IsFile(fs', src)
                       ELSE fs' = fs]_vars

\* C24 (as claimed): the loop never gets past a row that carries a filter
\* that does not compile and whose source exists and passes the cycle guard:
\* the error of the filter reaches the caller, whether the source is a tree
\* with files, a tree without files or a single file.
C24_InvalidRegexAlwaysSurfaces ==
    \A k \in 1..Len(dir_dict) :
        LET item == dir_dict[k]
        IN  (/\ k < index /\ ~rerun
             /\ item.destination # NONE
             /\ \/ Truthy(item.onlyfiles) /\ ~RegexValid(item.onlyfiles)
                \/ Truthy(item.ignorefiles) /\ ~RegexValid(item.ignorefiles)
             /\ Exists(fs0, item.source)
             /\ check_not_infloop(fs0, item.source, item.destination))
                => FALSE

\* C29 (as claimed): while the loop is at a row whose destination lies
\* strictly below its source, and which the cycle guard lets through, the walk
\* stays within finitely many directories: it never comes to a directory
\* whose mirror, or the mirror of a file in it, is a path longer than the
\* platform accepts, so the sync of the row ends by exhausting the walk and
\* not by running out of path.
C29_NestedSyncTerminates ==
    (/\ pc \in {"cm_walk", "cm_files", "raised"}
     /\ index \in 1..Len(dir_dict)
     /\ walk_top # <<>>)
        => LET item == dir_dict[index]
           IN  (/\ item.destination # NONE
                /\ IsUnder(item.source, item.destination)
                /\ TaskAccepted(fs0, item.source, item.destination))
                   => LET dst_root == MirrorRoot(item.destination,
                                                 RelPath(walk_top, item.source))
                      IN  /\ Len(dst_root) <= PathMax
                          /\ \A file \in ListFiles(fs, walk_top) :
                                 Len(Join(dst_root, file)) <= PathMax

(***************************************************************************)
(* run_unpack                                                              *)
(*                                                                         *)
(* The inputs: the directory /r holds the archives a.zip and c.tar.gz      *)
(* (each with one entry f), the plain file n.txt and x.zip, a file that    *)
(* carries an archive name and is no archive.  /r/a, where a.zip extracts  *)
(* by default, is absent, a regular file, or a directory already holding   *)
(* another f.  The rows name each of these files, a.zip with the explicit  *)
(* destination /r/o, and the missing /r/m.zip.  The registry is the        *)
(* built-in table, or that table after the program registered a format of  *)
(* its own for ".gz": get_unpack_formats sorts the rows by format name, so *)
(* the new row stands before the row of ".tar.gz" (a format named "gz") or *)
(* after every row (a format named "zz").                                  *)
(***************************************************************************)
GZ == <<".", "g", "z">>
N_f == <<"f">>
P_ro == <<"/", "r", "/", "o">>
P_rntxt == Join(P_r, <<"n">> \o TXT)
P_rxzip == Join(P_r, <<"x">> \o ZIP)
P_rmzip == Join(P_r, <<"m">> \o ZIP)
P_rctargz == Join(P_r, <<"c">> \o TAR \o GZ)

RunUnpackFileSystem(b) ==
    LET F1 == WithFile(WithDir(EmptyFS, P_r), P_razip, << Nested(1) >>)
        F2 == WithFile(F1, P_rctargz, << Nested(1) >>)
        F3 == WithFile(F2, P_rntxt, << Data(2) >>)
        F4 == WithFile(F3, P_rxzip, << Data(4) >>)
    IN  CASE b = "absent" -> F4
          [] b = "file" -> WithFile(F4, P_ra, << Data(3) >>)
          [] OTHER -> WithFile(F4, Join(P_ra, N_f), << Data(9) >>)

RunUnpackRowSet ==
    {<< P_razip >>, << P_razip, P_ro >>, << P_rctargz >>, << P_rntxt >>,
     << P_rxzip >>, << P_rmzip >>}

RunUnpackDirLists == UNION {[1..n -> RunUnpackRowSet] : n \in 1..MaxTasks}

RunUnpackRegistries ==
    {unp_formats,
     SubSeq(unp_formats, 1, 2) \o << GZ >> \o SubSeq(unp_formats, 3, Len(unp_formats)),
     unp_formats \o << GZ >>}

\* lines 78-79: the overwrite policy; utils has no get_user_confirmation, so
\* asking for it raises AttributeError
RunUnpackStart ==
    /\ pc = "ru_start"
    /\ IF overrideArg = "None"
       THEN pc' = "raised" /\ UNCHANGED override
       ELSE pc' = "ru_row" /\ override' = (overrideArg = "True")
    /\ UNCHANGED << fs, overrideArg, walk_stack, walk_top, walk_files >>
    /\ UNCHANGED << unpackOnly, syncOnly, unpackRowOnly >>
    /\ UNCHANGED pureOnly
    /\ UNCHANGED deleteOnly

\* lines 81-91: the loop body for one row.  _check_valid_unpack is called
\* with silent=False: for a source that does not exist it reports the
\* missing path and then builds the message of line 513-518 from
\* supported_formats, a local that is bound only inside "if dir_exists", which
\* raises UnboundLocalError.
RunUnpackRow ==
    /\ pc = "ru_row"
    /\ i <= Len(dir_list)
    /\ LET row == dir_list[i]
           r == run_unpack_row(fs, row, override)
           entry == [row |-> row, before |-> fs, valid |-> r.valid, dst |-> r.dst,
                     called |-> r.called, ok |-> r.ok, after |-> r.fs]
       IN  IF ~Exists(fs, row[1])
           THEN pc' = "raised" /\ UNCHANGED << fs, i, rowlog >>
           ELSE IF r.called /\ UnpackRaises(r.ok)
           THEN pc' = "raised" /\ fs' = r.fs /\ UNCHANGED << i, rowlog >>
           ELSE /\ fs' = r.fs
                /\ i' = i + 1
                /\ rowlog' = Append(rowlog, entry)
                /\ pc' = "ru_row"
    /\ UNCHANGED << overrideArg, override, walk_stack, walk_top, walk_files >>
    /\ UNCHANGED << VAR, dir_list, recursive, count, unpacked_dirs, files_unpacked,
                    calls, produced, passNo, passStartLen >>
    /\ UNCHANGED << syncOnly, registry >>
    /\ UNCHANGED pureOnly
    /\ UNCHANGED deleteOnly

\* line 81: the rows are exhausted and run_unpack returns
RunUnpackReturn ==
    /\ pc = "ru_row"
    /\ i > Len(dir_list)
    /\ pc' = "done"
    /\ UNCHANGED << fs, overrideArg, override, walk_stack, walk_top, walk_files >>
    /\ UNCHANGED << unpackOnly, syncOnly, unpackRowOnly >>
    /\ UNCHANGED pureOnly
    /\ UNCHANGED deleteOnly

RunUnpackNext ==
    \/ RunUnpackStart
    \/ RunUnpackRow
    \/ RunUnpackReturn

RunUnpackInit ==
    /\ fs \in {RunUnpackFileSystem(b) : b \in {"absent", "file", "dir_with_f"}}
    /\ dir_list \in RunUnpackDirLists
    /\ registry \in RunUnpackRegistries
    /\ overrideArg \in {"None", "True", "False"}
    /\ pc = "ru_start"
    /\ override = FALSE
    /\ i = 1
    /\ rowlog = <<>>
    /\ fs0 = fs
    /\ VAR = VAR_built
    /\ recursive = FALSE
    /\ count = 0
    /\ unpacked_dirs = <<>>
    /\ files_unpacked = FALSE
    /\ walk_stack = <<>>
    /\ walk_top = <<>>
    /\ walk_files = {}
    /\ calls = <<>>
    /\ produced = {}
    /\ passNo = 0
    /\ passStartLen = 0
    /\ option = "cp"
    /\ dir_dict = <<>>
    /\ index = 1
    /\ acted = {}
    /\ filtered = {}
    /\ rerun = FALSE
    /\ snapshot = EmptyFS
    /\ arg = <<>>
    /\ out = <<>>
    /\ skip_confimation = FALSE

RunUnpackSpec == RunUnpackInit /\ [][RunUnpackNext]_vars

\* the registered extensions that path p ends with
MatchingExtensions(p) == {registry[k] : k \in {j \in 1..Len(registry) : EndsWith(p, registry[j])}}

\* C18 (as claimed): a row of run_unpack whose source is missing, or whose
\* name ends with no registered extension, changes nothing on the filesystem
\* and hands over to the following row; hence only a row whose source exists
\* under a registered extension is extracted.
C18_InvalidRowSkippedBatchContinues ==
    [][(pc = "ru_row" /\ i <= Len(dir_list))
          => LET src == dir_list[i][1]
             IN  (~Exists(fs, src) \/ MatchingExtensions(src) = {})
                    => (fs' = fs /\ pc' = "ru_row" /\ i' = i + 1)]_vars

\* C19 (as claimed): for every row handled without a destination and with a
\* valid source, the destination run_unpack used is the source path without
\* the longest registered extension the path ends with, whatever the table.
C19_DestinationStripsLongestExtension ==
    \A k \in 1..Len(rowlog) :
        LET e == rowlog[k]
            src == e.row[1]
            exts == MatchingExtensions(src)
            longest == CHOOSE x \in exts : \A y \in exts : Len(y) <= Len(x)
        IN  (Len(e.row) = 1 /\ e.valid)
                => e.dst = SubSeq(src, 1, Len(src) - Len(longest))

\* every entry of the archive at src lies under dst in filesystem F
ExtractedInto(F, archive, dst) ==
    \A n \in 1..Len(archive.entries) :
        LET target == Join(dst, archive.entries[n].rel)
        IN  IsFile(F, target) /\ F.files[target] = archive.entries[n].c

\* C20 (as claimed): for every handled row whose source is an archive under
\* a registered extension: when overwrite is false and the destination was a
\* directory, the filesystem is left as it was; in every other case the
\* entries of the archive lie in the destination afterwards.
C20_SkipsExistingElseExtracts ==
    \A k \in 1..Len(rowlog) :
        LET e == rowlog[k]
            src == e.row[1]
        IN  (e.valid /\ e.before.files[src].kind = "archive")
                => IF ~override /\ IsDir(e.before, e.dst)
                   THEN e.after = e.before
                   ELSE ExtractedInto(e.after, e.before.files[src], e.dst)

\* C20 (amended): the same, where "every other case" leaves out a
\* destination path that is a regular file: there nothing is extracted and
\* the filesystem is left as it was.
C20_SkipsExistingElseExtractsUnlessFile ==
    \A k \in 1..Len(rowlog) :
        LET e == rowlog[k]
            src == e.row[1]
        IN  (e.valid /\ e.before.files[src].kind = "archive")
                => IF (~override /\ IsDir(e.before, e.dst)) \/ IsFile(e.before, e.dst)
                   THEN e.after = e.before
                   ELSE ExtractedInto(e.after, e.before.files[src], e.dst)

\* C20 witness: in one batch under overwrite false, a.zip was skipped because
\* /r/a was a directory, and was then extracted into the absent /r/o.
C20_Witness ==
    /\ pc = "done" /\ Len(rowlog) = 2
    /\ rowlog[1].row = << P_razip >> /\ rowlog[2].row = << P_razip, P_ro >>
    /\ IsDir(fs0, P_ra)
    /\ ~override
    /\ rowlog[1].after = rowlog[1].before
    /\ ~IsDir(rowlog[2].before, P_ro) /\ IsFile(fs, Join(P_ro, N_f))

DispatchRows ==
    {Row(P_razip, P_ro, NONE, NONE), Row(P_rctargz, P_ra, NONE, NONE),
     Row(P_rxzip, P_ro, NONE, NONE), Row(P_rmzip, P_ro, NONE, NONE)}

DispatchData == UNION {[1..n -> DispatchRows] : n \in 0..MaxTasks}

\* dirwiz.py lines 197-206: match task ... case 'decompress_files'
DispatchMain ==
    /\ pc = "main"
    /\ option = "decompress_files"
    /\ pc' = "dk_start"
    /\ UNCHANGED << fs, overrideArg, override, walk_stack, walk_top, walk_files >>
    /\ UNCHANGED << unpackOnly, syncOnly, unpackRowOnly, pureOnly, deleteOnly >>

\* run_unpack lines 78-79: the overwrite policy
DispatchUnpackStart ==
    /\ pc = "dk_start"
    /\ IF overrideArg = "None"
       THEN pc' = "raised" /\ UNCHANGED override
       ELSE pc' = "dk_row" /\ override' = (overrideArg = "True")
    /\ UNCHANGED << fs, overrideArg, walk_stack, walk_top, walk_files >>
    /\ UNCHANGED << unpackOnly, syncOnly, unpackRowOnly, pureOnly, deleteOnly >>

\* run_unpack lines 81-84 when dir_list is a mapping: "for row in dir_list"
\* yields the keys.  With an integer key, row[0] raises TypeError; with a
\* string key, row[0] is its first character, a path that does not exist, and
\* _check_valid_unpack raises UnboundLocalError (lines 510-518).
DispatchUnpackKey ==
    /\ pc = "dk_row"
    /\ index <= Len(dir_dict)
    /\ pc' = "raised"
    /\ UNCHANGED << fs, overrideArg, override, walk_stack, walk_top, walk_files >>
    /\ UNCHANGED << unpackOnly, syncOnly, unpackRowOnly, pureOnly, deleteOnly >>

\* run_unpack line 81: the mapping has no key (left)
DispatchUnpackReturn ==
    /\ pc = "dk_row"
    /\ index > Len(dir_dict)
    /\ pc' = "done"
    /\ UNCHANGED << fs, overrideArg, override, walk_stack, walk_top, walk_files >>
    /\ UNCHANGED << unpackOnly, syncOnly, unpackRowOnly, pureOnly, deleteOnly >>

DispatchNext ==
    \/ DispatchMain
    \/ DispatchUnpackStart
    \/ DispatchUnpackKey
    \/ DispatchUnpackReturn

DispatchInit ==
    /\ fs \in {RunUnpackFileSystem(b) : b \in {"absent", "file", "dir_with_f"}}
    /\ fs0 = fs
    /\ dir_dict \in DispatchData
    /\ option = "decompress_files"
    /\ overrideArg \in {"None", "True", "False"}
    /\ pc = "main"
    /\ override = FALSE
    /\ index = 1
    /\ walk_stack = <<>>
    /\ walk_top = <<>>
    /\ walk_files = {}
    /\ VAR = VAR_built
    /\ dir_list = <<>>
    /\ recursive = FALSE
    /\ i = 1
    /\ count = 0
    /\ unpacked_dirs = <<>>
    /\ files_unpacked = FALSE
    /\ calls = <<>>
    /\ produced = {}
    /\ passNo = 0
    /\ passStartLen = 0
    /\ acted = {}
    /\ filtered = {}
    /\ rerun = FALSE
    /\ snapshot = EmptyFS
    /\ registry = unp_formats
    /\ rowlog = <<>>
    /\ arg = <<>>
    /\ out = <<>>
    /\ skip_confimation = FALSE

DispatchSpec == DispatchInit /\ [][DispatchNext]_vars

\* C25 (as claimed): with the overwrite policy given, run_unpack accepts the
\* mapping the dispatcher hands it: the call raises nothing, and when it has
\* returned every row whose source is an archive and whose destination was
\* absent has its archive extracted into that destination.
C25_DispatchedUnpackProcessesRows ==
    overrideArg # "None"
        => /\ pc # "raised"
           /\ pc = "done"
                => \A k \in 1..Len(dir_dict) :
                       LET item == dir_dict[k]
                       IN  (/\ IsFile(fs0, item.source)
                            /\ fs0.files[item.source].kind = "archive"
                            /\ ~Exists(fs0, item.destination))
                               => ExtractedInto(fs, fs0.files[item.source], item.destination)

(***************************************************************************)
(* get_sheet_data_sourcedestination: the column names of a task row.       *)
(***************************************************************************)
\* line 162: removechars
removechars == << " ", "_", "-", "'", "\"" >>

Uppers == << "A", "C", "D", "E", "F", "G", "I", "L", "N", "O", "R", "S", "T", "U", "Y" >>
Lowers == << "a", "c", "d", "e", "f", "g", "i", "l", "n", "o", "r", "s", "t", "u", "y" >>

\* str.lower / str.upper, on the letters of the four column names
StrLower(s) ==
    [k \in 1..Len(s) |-> IF \E j \in 1..Len(Uppers) : Uppers[j] = s[k]
                         THEN Lowers[CHOOSE j \in 1..Len(Uppers) : Uppers[j] = s[k]]
                         ELSE s[k]]
StrUpper(s) ==
    [k \in 1..Len(s) |-> IF \E j \in 1..Len(Lowers) : Lowers[j] = s[k]
                         THEN Uppers[CHOOSE j \in 1..Len(Lowers) : Lowers[j] = s[k]]
                         ELSE s[k]]

\* str.strip(): the blanks at both ends are dropped
RECURSIVE StrStrip(_)
StrStrip(s) ==
    IF s # <<>> /\ s[1] = " " THEN StrStrip(Tail(s))
    ELSE IF s # <<>> /\ s[Len(s)] = " " THEN StrStrip(SubSeq(s, 1, Len(s) - 1))
    ELSE s

\* str.replace(c, "")
RemoveChar(s, c) == SelectSeq(s, LAMBDA x : x # c)

\* lines 164-169: the keys under which the value of column `header` is stored
\* in standardized_row_2: for every character of removechars, the stripped
\* and lower-cased name without that one character
standardized_keys(header) ==
    {RemoveChar(StrLower(StrStrip(header)), removechars[k]) : k \in 1..Len(removechars)}

\* the four column names, each cut in two words
ColumnWords ==
    { << <<"s", "o", "u">>, <<"r", "c", "e">> >>,
      << <<"d", "e", "s", "t", "i">>, <<"n", "a", "t", "i", "o", "n">> >>,
      << <<"o", "n", "l", "y">>, <<"f", "i", "l", "e", "s">> >>,
      << <<"i", "g", "n", "o", "r", "e">>, <<"f", "i", "l", "e", "s">> >> }

\* the strings of exactly m characters of removechars
SepStrings(m) == [1..m -> {removechars[k] : k \in 1..Len(removechars)}]

\* the separators before, between and after the two words: at most n
\* characters in all
SepTriples(n) ==
    UNION { SepStrings(a) \X SepStrings(b) \X SepStrings(c) :
            << a, b, c >> \in {t \in (0..n) \X (0..n) \X (0..n) : t[1] + t[2] + t[3] <= n} }

Capital(w) == StrUpper(SubSeq(w, 1, 1)) \o SubSeq(w, 2, Len(w))

\* the headers a sheet may carry: a column name in lower case, capitalised or
\* in upper case, with separator characters before it, between its two words
\* and after it, at most MaxSeps in all
Headers ==
    { t[1] \o w[1] \o t[2] \o w[2] \o t[3] :
        w \in { << f[1], f[2] >> : f \in {<< StrLower(c[1]), StrLower(c[2]) >> : c \in ColumnWords}
                                         \cup {<< Capital(c[1]), Capital(c[2]) >> : c \in ColumnWords}
                                         \cup {<< StrUpper(c[1]), StrUpper(c[2]) >> : c \in ColumnWords} },
        t \in SepTriples(MaxSeps) }

\* lines 163-170: one column name of the row is standardized
StandardizeHeader ==
    /\ pc = "header"
    /\ out = <<>>
    /\ out' = << standardized_keys(arg) >>
    /\ UNCHANGED << arg, shared, unpackOnly, syncOnly, unpackRowOnly, deleteOnly >>

HeaderInit ==
    /\ arg \in Headers
    /\ out = <<>>
    /\ pc = "header"
    /\ fs = EmptyFS
    /\ overrideArg = "False"
    /\ override = FALSE
    /\ walk_stack = <<>>
    /\ walk_top = <<>>
    /\ walk_files = {}
    /\ VAR = VAR_built
    /\ dir_list = <<>>
    /\ recursive = FALSE
    /\ i = 1
    /\ count = 0
    /\ unpacked_dirs = <<>>
    /\ files_unpacked = FALSE
    /\ calls = <<>>
    /\ produced = {}
    /\ passNo = 0
    /\ passStartLen = 0
    /\ option = "cp"
    /\ dir_dict = <<>>
    /\ index = 1
    /\ fs0 = EmptyFS
    /\ acted = {}
    /\ filtered = {}
    /\ rerun = FALSE
    /\ snapshot = EmptyFS
    /\ registry = unp_formats
    /\ rowlog = <<>>
    /\ skip_confimation = FALSE

HeaderSpec == HeaderInit /\ [][StandardizeHeader]_vars

\* the column name a header spells once letter case and every separator
\* character are set aside
CanonicalName(header) ==
    SelectSeq(StrLower(header), LAMBDA x : \A k \in 1..Len(removechars) : x # removechars[k])

\* C26 (as claimed): a header that differs from a column name only by letter
\* case and by any number and mix of blanks, underscores, hyphens and quotes
\* is stored under that column name, so the row yields the same task as with
\* the canonical header.
C26_HeaderRecognisedWhateverSeparators ==
    Len(out) = 1 => CanonicalName(arg) \in out[1]

(***************************************************************************)
(* run_delete.  The tree is the one of run_copy / run_move; the list names *)
(* /s, /s/d, /d and the missing /m.                                        *)
(***************************************************************************)
\* a variant of line 41 that takes the deletion as confirmed in every case
delete_confirmation_Always(skip) == "yes"

\* line 41: skip_confimation if skip_confimation else
\* utils.get_user_confirmation(question); utils has no get_user_confirmation,
\* so asking raises AttributeError
delete_confirmation(skip) == IF skip THEN "yes" ELSE "raise"

\* shutil.rmtree(d, onexc=_remove_readonly): the directory and everything
\* under it are removed; for a path that is no directory the failing call is
\* handed to _remove_readonly, whose os.chmod or repeated call raises
rmtree(F, d) ==
    IF ~IsDir(F, d) THEN [ok |-> FALSE, fs |-> F]
    ELSE [ok |-> TRUE,
          fs |-> [dirs |-> {q \in F.dirs : q # d /\ ~IsUnder(d, q)},
                  files |-> [q \in {x \in DOMAIN F.files : ~IsUnder(d, x)} |-> F.files[q]]]]

DeleteDirs == {P_s, P_sd, P_d, P_m}
DeleteDirLists == UNION {[1..n -> DeleteDirs] : n \in 1..MaxRoots}

\* lines 40-43: the confirmation
DeleteStart ==
    /\ pc = "rd_start"
    /\ pc' = CASE delete_confirmation(skip_confimation) = "yes" -> "rd_loop"
               [] delete_confirmation(skip_confimation) = "no" -> "done"
               [] OTHER -> "raised"
    /\ UNCHANGED << fs, overrideArg, override, walk_stack, walk_top, walk_files >>
    /\ UNCHANGED << unpackOnly, syncOnly, unpackRowOnly, pureOnly, deleteOnly >>

\* lines 44-46: the next directory of the list is removed
DeleteDir ==
    /\ pc = "rd_loop"
    /\ i <= Len(dir_list)
    /\ LET r == rmtree(fs, dir_list[i])
       IN  /\ fs' = r.fs
           /\ IF r.ok THEN pc' = "rd_loop" /\ i' = i + 1
              ELSE pc' = "raised" /\ UNCHANGED i
    /\ UNCHANGED << overrideArg, override, walk_stack, walk_top, walk_files >>
    /\ UNCHANGED << VAR, dir_list, recursive, count, unpacked_dirs, files_unpacked,
                    calls, produced, passNo, passStartLen >>
    /\ UNCHANGED << syncOnly, unpackRowOnly, pureOnly, deleteOnly >>

\* line 44: the list is exhausted
DeleteReturn ==
    /\ pc = "rd_loop"
    /\ i > Len(dir_list)
    /\ pc' = "done"
    /\ UNCHANGED << fs, overrideArg, override, walk_stack, walk_top, walk_files >>
    /\ UNCHANGED << unpackOnly, syncOnly, unpackRowOnly, pureOnly, deleteOnly >>

DeleteNext ==
    \/ DeleteStart
    \/ DeleteDir
    \/ DeleteReturn

DeleteInit ==
    /\ fs \in SyncFileSystems
    /\ fs0 = fs
    /\ dir_list \in DeleteDirLists
    /\ skip_confimation \in BOOLEAN
    /\ pc = "rd_start"
    /\ i = 1
    /\ overrideArg = "False"
    /\ override = FALSE
    /\ walk_stack = <<>>
    /\ walk_top = <<>>
    /\ walk_files = {}
    /\ VAR = VAR_built
    /\ recursive = FALSE
    /\ count = 0
    /\ unpacked_dirs = <<>>
    /\ files_unpacked = FALSE
    /\ calls = <<>>
    /\ produced = {}
    /\ passNo = 0
    /\ passStartLen = 0
    /\ option = "cp"
    /\ dir_dict = <<>>
    /\ index = 1
    /\ acted = {}
    /\ filtered = {}
    /\ rerun = FALSE
    /\ snapshot = EmptyFS
    /\ registry = unp_formats
    /\ rowlog = <<>>
    /\ arg = <<>>
    /\ out = <<>>

DeleteSpec == DeleteInit /\ [][DeleteNext]_vars

\* C28: run_delete changes the filesystem only after the deletion was
\* authorised: whenever a listed directory or anything else differs from the
\* state at the call, skip_confimation was true and the confirmation step
\* has been passed; without authorisation everything is left as it was.
C28_DeleteOnlyWhenAuthorised ==
    /\ fs # fs0 => (skip_confimation /\ pc \in {"rd_loop", "done", "raised"})
    /\ ~skip_confimation => fs = fs0
    /\ pc = "rd_start" => fs = fs0

\* C28 witness: an authorised call removed /s and all its content and
\* returned.
C28_Witness ==
    /\ pc = "done" /\ skip_confimation
    /\ IsDir(fs0, P_s) /\ InList(P_s, dir_list)
    /\ ~IsDir(fs, P_s) /\ ~IsDir(fs, P_sde) /\ ~IsFile(fs, Join(P_s, N_atxt))

(***************************************************************************)
(* fixpath, on a platform whose os.name is not "nt" (os.path is posixpath). *)
(***************************************************************************)
BSL == "\\"

\* str.lstrip("\\")
RECURSIVE LStripBackslash(_)
LStripBackslash(s) ==
    IF s # <<>> /\ s[1] = BSL THEN LStripBackslash(Tail(s)) ELSE s

\* re.sub(r"[\\/]+", "/", s): every run of separators becomes one "/"
RECURSIVE CollapseSeparators(_)
CollapseSeparators(s) ==
    IF s = <<>> THEN <<>>
    ELSE IF s[1] \in {BSL, "/"}
         THEN IF Len(s) >= 2 /\ s[2] \in {BSL, "/"}
              THEN CollapseSeparators(Tail(s))
              ELSE SLASH \o CollapseSeparators(Tail(s))
         ELSE << s[1] >> \o CollapseSeparators(Tail(s))

\* str.split("/"): the list of the pieces between the slashes
RECURSIVE SplitSlash(_, _)
SplitSlash(s, piece) ==
    IF s = <<>> THEN << piece >>
    ELSE IF s[1] = "/" THEN << piece >> \o SplitSlash(Tail(s), <<>>)
    ELSE SplitSlash(Tail(s), Append(piece, s[1]))

\* os.path.join(*pieces)
RECURSIVE JoinAll(_, _)
JoinAll(path, pieces) ==
    IF pieces = <<>> THEN path ELSE JoinAll(Join(path, Head(pieces)), Tail(pieces))

\* str.replace(":", ":\\")
RECURSIVE ReplaceColon(_)
ReplaceColon(s) ==
    IF s = <<>> THEN <<>>
    ELSE IF s[1] = ":" THEN << ":", BSL >> \o ReplaceColon(Tail(s))
    ELSE << s[1] >> \o ReplaceColon(Tail(s))

\* lines 305-334
fixpath(path) ==
    LET prefix == IF StartsWith(path, << BSL, BSL >>) THEN << BSL, BSL >>
                  ELSE IF StartsWith(path, SLASH) THEN SLASH
                  ELSE <<>>
        cleaned == CollapseSeparators(LStripBackslash(path))
        pieces == SplitSlash(cleaned, <<>>)
        normalized == JoinAll(Head(pieces), Tail(pieces))
        fixed == IF Contains(normalized, << ":" >>) /\ ~Contains(normalized, << ":", BSL >>)
                 THEN ReplaceColon(normalized)
                 ELSE normalized
    IN  prefix \o fixed

\* the path strings: letters, both separators and the drive colon
FixpathChars == {"a", "/", BSL, ":"}
FixpathStrings == UNION {[1..n -> FixpathChars] : n \in 0..MaxChars}

\* the caller normalises a path and then normalises the result
FixpathApply ==
    /\ pc = "fixpath"
    /\ Len(out) < 2
    /\ out' = Append(out, fixpath(IF out = <<>> THEN arg ELSE out[Len(out)]))
    /\ UNCHANGED << arg, shared, unpackOnly, syncOnly, unpackRowOnly, deleteOnly >>

FixpathInit ==
    /\ arg \in FixpathStrings
    /\ out = <<>>
    /\ pc = "fixpath"
    /\ fs = EmptyFS
    /\ overrideArg = "False"
    /\ override = FALSE
    /\ walk_stack = <<>>
    /\ walk_top = <<>>
    /\ walk_files = {}
    /\ VAR = VAR_built
    /\ dir_list = <<>>
    /\ recursive = FALSE
    /\ i = 1
    /\ count = 0
    /\ unpacked_dirs = <<>>
    /\ files_unpacked = FALSE
    /\ calls = <<>>
    /\ produced = {}
    /\ passNo = 0
    /\ passStartLen = 0
    /\ option = "cp"
    /\ dir_dict = <<>>
    /\ index = 1
    /\ fs0 = EmptyFS
    /\ acted = {}
    /\ filtered = {}
    /\ rerun = FALSE
    /\ snapshot = EmptyFS
    /\ registry = unp_formats
    /\ rowlog = <<>>
    /\ skip_confimation = FALSE

FixpathSpec == FixpathInit /\ [][FixpathApply]_vars

\* C22 (as claimed): normalising a normalised path returns it unchanged:
\* fixpath(fixpath(p)) = fixpath(p) for every path string p.
C22_FixpathIdempotent == Len(out) = 2 => out[2] = out[1]

=============================================================================
